---------------------------- MODULE Spec2Model ----------------------------
(***************************************************************************)
(* A model of app_gradio.py: the pipeline get_nutritional_info (key check, *)
(* image preparation, inference call, response parsing, rendering).        *)
(*                                                                         *)
(* Texts are sequences of one-character strings, so that substring tests,  *)
(* code-fence removal, JSON decoding and title-casing are computed on the  *)
(* characters as the Python code computes them.  Python values are tagged  *)
(* records:                                                                *)
(*   [t |-> "None"]            [t |-> "bool", b |-> TRUE]                  *)
(*   [t |-> "int", n |-> 5]    [t |-> "str", s |-> <<"a","b">>]            *)
(*   [t |-> "list", items |-> <<v1, v2>>]                                  *)
(*   [t |-> "dict", keys |-> <<k1, k2>>, vals |-> <<v1, v2>>]  (ordered)   *)
(*   [t |-> "bytes"]  (the encoded JPEG)                                   *)
(* An operator that can raise returns [exc |-> "<exception class>"]        *)
(* instead of a value.                                                     *)
(***************************************************************************)
EXTENDS Integers, Sequences, FiniteSets, TLC

VARIABLES GEMINI_API_KEY, pc, image, user_goal, outcome, calls, raw_response_text,
          parsed_result, ret

vars ==
  <<GEMINI_API_KEY, pc, image, user_goal, outcome, calls, raw_response_text, parsed_result, ret>>

-----------------------------------------------------------------------------
(* Bounds of the model. *)

\* Numbers in the model's reply range over 0..MaxNum.
MaxNum == 1

\* A reply may be cut short by 1..MaxTrunc characters.
MaxTrunc == 2

-----------------------------------------------------------------------------
(* Python values. *)

PyNone == [t |-> "None"]

PyBool(b) == [t |-> "bool", b |-> b]

PyInt(n) == [t |-> "int", n |-> n]

PyStr(s) == [t |-> "str", s |-> s]

PyList(items) == [t |-> "list", items |-> items]

PyDict(keys, vals) == [t |-> "dict", keys |-> keys, vals |-> vals]

EmptyDict == PyDict(<<>>, <<>>)

EmptyList == PyList(<<>>)

IsExc(v) == "exc" \in DOMAIN v

Raise(cls, msg) == [exc |-> cls, msg |-> msg]

\* type(v).__name__
TypeName(v) ==
  CASE v.t = "None" -> <<"N","o","n","e","T","y","p","e">>
    [] v.t = "bool" -> <<"b","o","o","l">>
    [] v.t = "int" -> <<"i","n","t">>
    [] v.t = "str" -> <<"s","t","r">>
    [] v.t = "list" -> <<"l","i","s","t">>
    [] v.t = "dict" -> <<"d","i","c","t">>
    [] v.t = "bytes" -> <<"b","y","t","e","s">>

NoAttribute(v, attr) ==
  Raise("AttributeError", <<"'">> \o TypeName(v) \o <<"'"," ","o","b","j","e","c","t"," ","h","a","s"," ","n","o"," ","a","t","t","r","i","b",
       "u","t","e"," ","'">> \o attr \o <<"'">>)

TypeErrorOf(v, what) == Raise("TypeError", <<"'">> \o TypeName(v) \o what)

\* bool(v): None, False, 0, "", [] and {} are falsy.
Truthy(v) ==
  CASE v.t = "None" -> FALSE
    [] v.t = "bool" -> v.b
    [] v.t = "int" -> v.n # 0
    [] v.t = "str" -> v.s # <<>>
    [] v.t = "list" -> v.items # <<>>
    [] v.t = "dict" -> v.keys # <<>>
    [] OTHER -> TRUE

KeyIndex(d, k) == CHOOSE i \in 1..Len(d.keys) : d.keys[i] = k

HasKey(d, k) == \E i \in 1..Len(d.keys) : d.keys[i] = k

\* v.get(k, default): only a dict has the method.
DictGet(v, k, default) ==
  IF v.t # "dict" THEN NoAttribute(v, <<"g","e","t">>)
  ELSE IF HasKey(v, k) THEN v.vals[KeyIndex(v, k)] ELSE default

\* d[k] = x on a dict: an existing key keeps its position.
DictPut(d, k, x) ==
  IF HasKey(d, k)
  THEN PyDict(d.keys, [d.vals EXCEPT ![KeyIndex(d, k)] = x])
  ELSE PyDict(Append(d.keys, k), Append(d.vals, x))

\* v[0]
Index0(v) ==
  CASE v.t = "list" -> IF v.items = <<>> THEN Raise("IndexError", <<"l","i","s","t"," ","i","n","d","e","x"," ","o","u","t"," ","o","f"," ","r","a","n","g",
       "e">>)
                        ELSE v.items[1]
    [] v.t = "str" -> IF v.s = <<>> THEN Raise("IndexError", <<"s","t","r","i","n","g"," ","i","n","d","e","x"," ","o","u","t"," ","o","f"," ","r","a",
       "n","g","e">>)
                       ELSE PyStr(<<v.s[1]>>)
    [] v.t = "dict" -> Raise("KeyError", <<"0">>)
    [] OTHER -> TypeErrorOf(v, <<"'"," ","o","b","j","e","c","t"," ","i","s"," ","n","o","t"," ","s","u","b","s","c","r",
       "i","p","t","a","b","l","e">>)

\* for x in v: [items |-> the values iterated], or TypeError for a value that is not
\* iterable.
Iterate(v) ==
  CASE v.t = "list" -> [items |-> v.items]
    [] v.t = "str" -> [items |-> [i \in 1..Len(v.s) |-> PyStr(<<v.s[i]>>)]]
    [] v.t = "dict" -> [items |-> [i \in 1..Len(v.keys) |-> PyStr(v.keys[i])]]
    [] OTHER -> TypeErrorOf(v, <<"'"," ","o","b","j","e","c","t"," ","i","s"," ","n","o","t"," ","i","t","e","r","a","b",
       "l","e">>)

-----------------------------------------------------------------------------
(* Python string operations, on sequences of characters. *)

MatchAt(s, i, sub) ==
  /\ i + Len(sub) - 1 <= Len(s)
  /\ \A k \in 1..Len(sub) : s[i + k - 1] = sub[k]

\* sub in s
Contains(s, sub) == \E i \in 1..(Len(s) - Len(sub) + 1) : MatchAt(s, i, sub)

\* The first index j >= i where sub occurs in s, or 0.
NextMatch(s, i, sub) ==
  IF \E j \in i..Len(s) : MatchAt(s, j, sub)
  THEN CHOOSE j \in i..Len(s) : MatchAt(s, j, sub) /\ \A k \in i..(j - 1) : ~MatchAt(s, k, sub)
  ELSE 0

RECURSIVE ReplaceFrom(_, _, _)

\* j is the next occurrence of old at or after i (0: none).
ReplaceAt(s, i, old, j) ==
  IF j = 0 THEN SubSeq(s, i, Len(s))
  ELSE SubSeq(s, i, j - 1) \o ReplaceFrom(s, j + Len(old), old)

ReplaceFrom(s, i, old) == ReplaceAt(s, i, old, NextMatch(s, i, old))

\* s.replace(old, ""): the occurrences of old, found left to right without overlap, removed.
Replace(s, old) == ReplaceFrom(s, 1, old)

Whitespace == {" ", "\n", "\t", "\r"}

\* s.strip()
Strip(s) ==
  IF \A i \in 1..Len(s) : s[i] \in Whitespace THEN <<>>
  ELSE SubSeq(s,
              CHOOSE i \in 1..Len(s) :
                s[i] \notin Whitespace /\ \A j \in 1..(i - 1) : s[j] \in Whitespace,
              CHOOSE i \in 1..Len(s) :
                s[i] \notin Whitespace /\ \A j \in (i + 1)..Len(s) : s[j] \in Whitespace)

Lowercase == <<"a","b","c","d","e","f","g","h","i","j","k","l","m","n","o","p","q","r","s","t","u","v",
       "w","x","y","z">>

Uppercase == <<"A","B","C","D","E","F","G","H","I","J","K","L","M","N","O","P","Q","R","S","T","U","V",
       "W","X","Y","Z">>

IsLower(c) == \E i \in 1..26 : Lowercase[i] = c

IsUpper(c) == \E i \in 1..26 : Uppercase[i] = c

ToUpper(c) == IF IsLower(c) THEN Uppercase[CHOOSE i \in 1..26 : Lowercase[i] = c] ELSE c

ToLower(c) == IF IsUpper(c) THEN Lowercase[CHOOSE i \in 1..26 : Uppercase[i] = c] ELSE c

\* s.title(): a cased character is upper-cased after an uncased one (or at the
\* start) and lower-cased after a cased one.
Title(s) ==
  [i \in 1..Len(s) |->
     IF i > 1 /\ (IsLower(s[i - 1]) \/ IsUpper(s[i - 1])) THEN ToLower(s[i]) ELSE ToUpper(s[i])]

\* name.replace('_', ' ').title()
DisplayName(name) == Title([i \in 1..Len(name) |-> IF name[i] = "_" THEN " " ELSE name[i]])

Digits == <<"0","1","2","3","4","5","6","7","8","9">>

IsDigit(c) == \E i \in 1..10 : Digits[i] = c

DigitValue(c) == (CHOOSE i \in 1..10 : Digits[i] = c) - 1

RECURSIVE IntToStr(_)
IntToStr(n) == IF n < 10 THEN <<Digits[n + 1]>> ELSE IntToStr(n \div 10) \o <<Digits[(n % 10) + 1]>>

RECURSIVE JoinSeq(_, _)
JoinSeq(parts, sep) ==
  IF parts = <<>> THEN <<>>
  ELSE IF Len(parts) = 1 THEN parts[1]
  ELSE parts[1] \o sep \o JoinSeq(Tail(parts), sep)

\* repr() of a str: single quotes, or double quotes when it holds a ' and no ".
StrRepr(s) ==
  IF (\E i \in 1..Len(s) : s[i] = "'") /\ ~(\E i \in 1..Len(s) : s[i] = "\"")
  THEN <<"\"">> \o s \o <<"\"">>
  ELSE <<"'">> \o s \o <<"'">>

RECURSIVE Repr(_)
Repr(v) ==
  CASE v.t = "None" -> <<"N","o","n","e">>
    [] v.t = "bool" -> IF v.b THEN <<"T","r","u","e">> ELSE <<"F","a","l","s","e">>
    [] v.t = "int" -> IntToStr(v.n)
    [] v.t = "str" -> StrRepr(v.s)
    [] v.t = "list" ->
         <<"[">> \o JoinSeq([i \in 1..Len(v.items) |-> Repr(v.items[i])], <<","," ">>) \o <<"]">>
    [] v.t = "dict" ->
         <<"{">> \o JoinSeq([i \in 1..Len(v.keys) |->
                               StrRepr(v.keys[i]) \o <<":"," ">> \o Repr(v.vals[i])], <<","," ">>)
                 \o <<"}">>

\* f"{v}": str(v), which is the text itself for a str and repr(v) otherwise.
Format(v) == IF v.t = "str" THEN v.s ELSE Repr(v)

\* sub in v, for a str sub: substring of a str, element of a list, key of a dict.
InValue(sub, v) ==
  CASE v.t = "str" -> PyBool(Contains(v.s, sub))
    [] v.t = "list" -> PyBool(\E i \in 1..Len(v.items) : v.items[i] = PyStr(sub))
    [] v.t = "dict" -> PyBool(HasKey(v, sub))
    [] OTHER -> Raise("TypeError", <<"a","r","g","u","m","e","n","t"," ","o","f"," ","t","y","p","e"," ","'">> \o TypeName(v) \o <<"'"," ","i","s"," ","n","o","t"," ","i","t","e","r","a","b","l","e">>)

-----------------------------------------------------------------------------
(* json.loads: a decoder of JSON text into Python values.  It decodes      *)
(* objects, arrays, strings, non-negative integers, true, false and null,  *)
(* with JSON whitespace between tokens.  Escape sequences, signs,          *)
(* fractions and exponents are outside the alphabet of the texts the model *)
(* feeds it.  A decoder result is [ok |-> TRUE, val |-> v, end |-> j] (j   *)
(* the index after the value) or [ok |-> FALSE] (json.JSONDecodeError).    *)

JsonWs == {" ", "\n", "\t", "\r"}

DecodeError == [ok |-> FALSE]

Decoded(v, j) == [ok |-> TRUE, val |-> v, end |-> j]

CharAt(s, i) == IF i >= 1 /\ i <= Len(s) THEN s[i] ELSE "EOF"

\* The first index j >= i where P fails to hold of s[j] is found by the operators
\* below as the least one; Len(s) + 1 when there is none.

\* The index of the first character at or after i that is no whitespace.
SkipWs(s, i) ==
  IF \A j \in i..Len(s) : s[j] \in JsonWs THEN IF i > Len(s) THEN i ELSE Len(s) + 1
  ELSE CHOOSE j \in i..Len(s) : s[j] \notin JsonWs /\ \A k \in i..(j - 1) : s[k] \in JsonWs

\* s[i] is the character after the opening quote: the text up to the closing
\* quote, which may hold no control character.
ClosingQuote(s, i) ==
  CHOOSE j \in i..Len(s) : s[j] = "\"" /\ \A k \in i..(j - 1) : s[k] # "\""

StringUpTo(s, i, q) ==
  IF \E k \in i..(q - 1) : s[k] \in {"\n", "\t", "\r"} THEN DecodeError
  ELSE Decoded(SubSeq(s, i, q - 1), q + 1)

ScanString(s, i) ==
  IF ~\E j \in i..Len(s) : s[j] = "\"" THEN DecodeError
  ELSE StringUpTo(s, i, ClosingQuote(s, i))

RECURSIVE DigitsValue(_)
DigitsValue(ds) ==
  IF ds = <<>> THEN 0 ELSE 10 * DigitsValue(SubSeq(ds, 1, Len(ds) - 1)) + DigitValue(ds[Len(ds)])

\* The run of digits that starts at i.
DigitsEnd(s, i) ==
  IF \A j \in i..Len(s) : IsDigit(s[j]) THEN Len(s) + 1
  ELSE CHOOSE j \in i..Len(s) : ~IsDigit(s[j]) /\ \A k \in i..(j - 1) : IsDigit(s[k])

DigitsUpTo(s, i, e) == Decoded(PyInt(DigitsValue(SubSeq(s, i, e - 1))), e)

ScanDigits(s, i) == DigitsUpTo(s, i, DigitsEnd(s, i))

\* A number: 0, or a non-zero digit followed by digits.
ScanNumber(s, i) ==
  IF s[i] = "0" THEN Decoded(PyInt(0), i + 1) ELSE ScanDigits(s, i)

ScanLiteral(s, i, word, v) ==
  IF MatchAt(s, i, word) THEN Decoded(v, i + Len(word)) ELSE DecodeError

StringValue(r) == IF r.ok THEN Decoded(PyStr(r.val), r.end) ELSE DecodeError

RECURSIVE ScanValue(_, _), ScanElements(_, _, _), ScanMembers(_, _, _)

\* After an element: "," and the next element, or "]".
ElementSep(s, items, j) ==
  IF CharAt(s, j) = "," THEN ScanElements(s, SkipWs(s, j + 1), items)
  ELSE IF CharAt(s, j) = "]" THEN Decoded(PyList(items), j + 1)
  ELSE DecodeError

AfterElement(s, items, v) ==
  IF ~v.ok THEN DecodeError ELSE ElementSep(s, Append(items, v.val), SkipWs(s, v.end))

\* After "[" or ",": an element, then "," or "]".
ScanElements(s, i, items) == AfterElement(s, items, ScanValue(s, i))

\* After a member: "," and the next member, or "}".
MemberSep(s, d, j) ==
  IF CharAt(s, j) = "," THEN ScanMembers(s, SkipWs(s, j + 1), d)
  ELSE IF CharAt(s, j) = "}" THEN Decoded(d, j + 1)
  ELSE DecodeError

AfterMember(s, d, key, v) ==
  IF ~v.ok THEN DecodeError ELSE MemberSep(s, DictPut(d, key, v.val), SkipWs(s, v.end))

AfterColon(s, d, key, c) ==
  IF CharAt(s, c) # ":" THEN DecodeError
  ELSE AfterMember(s, d, key, ScanValue(s, SkipWs(s, c + 1)))

AfterKey(s, d, k) == IF ~k.ok THEN DecodeError ELSE AfterColon(s, d, k.val, SkipWs(s, k.end))

\* After "{" or ",": a quoted key, ":", a value, then "," or "}".
ScanMembers(s, i, d) ==
  IF CharAt(s, i) # "\"" THEN DecodeError ELSE AfterKey(s, d, ScanString(s, i + 1))

ObjectFrom(s, j) ==
  IF CharAt(s, j) = "}" THEN Decoded(EmptyDict, j + 1) ELSE ScanMembers(s, j, EmptyDict)

ArrayFrom(s, j) ==
  IF CharAt(s, j) = "]" THEN Decoded(EmptyList, j + 1) ELSE ScanElements(s, j, <<>>)

ValueAt(s, i, c) ==
  CASE c = "\"" -> StringValue(ScanString(s, i + 1))
    [] c = "{" -> ObjectFrom(s, SkipWs(s, i + 1))
    [] c = "[" -> ArrayFrom(s, SkipWs(s, i + 1))
    [] c = "n" -> ScanLiteral(s, i, <<"n","u","l","l">>, PyNone)
    [] c = "t" -> ScanLiteral(s, i, <<"t","r","u","e">>, PyBool(TRUE))
    [] c = "f" -> ScanLiteral(s, i, <<"f","a","l","s","e">>, PyBool(FALSE))
    [] IsDigit(c) -> ScanNumber(s, i)
    [] OTHER -> DecodeError

ScanValue(s, i) == ValueAt(s, i, CharAt(s, i))

WholeText(s, r) ==
  IF r.ok /\ SkipWs(s, r.end) = Len(s) + 1 THEN r.val
  ELSE Raise("JSONDecodeError", <<"E","x","p","e","c","t","i","n","g"," ","v","a","l","u","e">>)

\* json.loads(s): one value, whitespace around it, nothing after it.
json_loads(s) == WholeText(s, ScanValue(s, SkipWs(s, 1)))

-----------------------------------------------------------------------------
(* 1. Configuration. *)

GEMINI_MODEL_NAME == <<"g","e","m","i","n","i","-","1",".","5","-","f","l","a","s","h">>

\* f"...{GEMINI_MODEL_NAME}:generateContent?key={GEMINI_API_KEY}"
GEMINI_API_URL(key) ==
  <<"h","t","t","p","s",":","/","/","g","e","n","e","r","a","t","i","v","e","l","a","n","g",
       "u","a","g","e",".","g","o","o","g","l","e","a","p","i","s",".","c","o","m","/","v","1",
       "b","e","t","a","/","m","o","d","e","l","s","/">> \o GEMINI_MODEL_NAME
    \o <<":","g","e","n","e","r","a","t","e","C","o","n","t","e","n","t","?","k","e","y","=">> \o Format(key)

\* os.getenv("GEMINI_API_KEY"): None when the variable is absent, its text otherwise.
EnvValues == {PyNone, PyStr(<<>>), PyStr(<<"k","3","y">>)}

-----------------------------------------------------------------------------
(* 2. Image preparation. *)

\* What Gradio hands over: a decodable RGB bitmap, a bitmap with an alpha channel
\* (JPEG cannot store it: save raises OSError), a bitmap whose data is cut short
\* (copy raises OSError), or None when nothing was uploaded (None.copy raises
\* AttributeError).
Images == {"RGB", "RGBA", "truncated", "None"}

\* try: copy, thumbnail, save as JPEG; except Exception: return None
process_image_for_analysis(img) == IF img = "RGB" THEN [t |-> "bytes"] ELSE PyNone

-----------------------------------------------------------------------------
(* 3. Response parsing. *)

\* The character "^" of the model stands for the backquote of the source (a string
\* of this notation cannot hold a backquote); no text of the model holds a caret.
FENCE_JSON == <<"^","^","^","j","s","o","n">>

FENCE == <<"^","^","^">>

MSG_COULD_NOT_PARSE == <<"C","o","u","l","d"," ","n","o","t"," ","p","a","r","s","e"," ","r","e","s","p","o","n",
       "s","e","."," ","P","l","e","a","s","e"," ","t","r","y"," ","a","g","a","i","n"," ","o",
       "r"," ","r","e","f","i","n","e"," ","i","n","p","u","t",".">>

MSG_UNEXPECTED_PARSING == <<"A","n"," ","u","n","e","x","p","e","c","t","e","d"," ","e","r","r","o","r"," ","o","c",
       "c","u","r","r","e","d"," ","d","u","r","i","n","g"," ","p","a","r","s","i","n","g",".">>

K_identified_foods == <<"i","d","e","n","t","i","f","i","e","d","_","f","o","o","d","s">>

K_macronutrients == <<"m","a","c","r","o","n","u","t","r","i","e","n","t","s">>

K_micronutrients == <<"m","i","c","r","o","n","u","t","r","i","e","n","t","s">>

K_additional_info == <<"a","d","d","i","t","i","o","n","a","l","_","i","n","f","o">>

K_improvements == <<"i","m","p","r","o","v","e","m","e","n","t","s">>

K_suggestions == <<"s","u","g","g","e","s","t","i","o","n","s">>

K_context == <<"c","o","n","t","e","x","t">>

\* {'suggestions': [], 'context': ''}
DefaultImprovements == PyDict(<<K_suggestions, K_context>>, <<EmptyList, PyStr(<<>>)>>)

\* The report both except clauses return, with their one suggestion.
FallbackReport(message) ==
  [food_items |-> EmptyList,
   macronutrients |-> EmptyDict,
   micronutrients |-> EmptyDict,
   improvements |-> PyDict(<<K_suggestions, K_context>>,
                           <<PyList(<<PyStr(message)>>), PyStr(<<>>)>>),
   additional_info |-> EmptyDict]

\* A slip: only the bare fence marker is removed, the language tag stays.
CleanResponse_BareFenceOnly(text) == Strip(Replace(text, FENCE))

\* response_text.replace("```json", "").replace("```", "").strip()
CleanResponse(text) == Strip(Replace(Replace(text, FENCE_JSON), FENCE))

\* The try block, once json.loads has returned data.
ExtractReport(data) ==
  IF data.t # "dict" THEN NoAttribute(data, <<"g","e","t">>)
  ELSE [food_items |-> DictGet(data, K_identified_foods, EmptyList),
        macronutrients |-> DictGet(data, K_macronutrients, EmptyDict),
        micronutrients |-> DictGet(data, K_micronutrients, EmptyDict),
        improvements |-> DictGet(data, K_improvements, DefaultImprovements),
        additional_info |-> DictGet(data, K_additional_info, EmptyDict)]

\* After json.loads: its JSONDecodeError, or the fields extracted.
Loaded(data) == IF IsExc(data) THEN data ELSE ExtractReport(data)

\* The exception the try block ends with, or the report it returns.
ParseAttempt(response_text) ==
  IF response_text.t # "str" THEN NoAttribute(response_text, <<"r","e","p","l","a","c","e">>)
  ELSE Loaded(json_loads(CleanResponse(response_text.s)))

\* A slip: one except clause for every exception.
Handled_OneClause(r) == IF ~IsExc(r) THEN r ELSE FallbackReport(MSG_COULD_NOT_PARSE)

\* except json.JSONDecodeError / except Exception
Handled(r) ==
  IF ~IsExc(r) THEN r
  ELSE IF r.exc = "JSONDecodeError" THEN FallbackReport(MSG_COULD_NOT_PARSE)
  ELSE FallbackReport(MSG_UNEXPECTED_PARSING)

parse_nutrition_response(response_text) == Handled(ParseAttempt(response_text))

-----------------------------------------------------------------------------
(* 4. The inference call.  An outcome is what requests.post, raise_for_status *)
(* and response.json() produce:                                             *)
(*   [kind |-> "network", msg]          post raises a RequestException      *)
(*   [kind |-> "http", status, reason]   raise_for_status raises HTTPError  *)
(*   [kind |-> "body", as]               response.json() raises: a          *)
(*        RequestException (requests >= 2.27) or a plain JSONDecodeError    *)
(*   [kind |-> "json", result]           the decoded body                   *)

K_candidates == <<"c","a","n","d","i","d","a","t","e","s">>

K_content == <<"c","o","n","t","e","n","t">>

K_parts == <<"p","a","r","t","s">>

K_text == <<"t","e","x","t">>

K_error == <<"e","r","r","o","r">>

K_message == <<"m","e","s","s","a","g","e">>

MSG_NETWORK == <<"N","e","t","w","o","r","k"," ","o","r"," ","r","e","q","u","e","s","t"," ","e","r","r",
       "o","r"," ","d","u","r","i","n","g"," ","G","e","m","i","n","i"," ","A","P","I"," ","c",
       "a","l","l",":"," ">>

MSG_DECODING == <<"E","r","r","o","r"," ","d","e","c","o","d","i","n","g"," ","J","S","O","N"," ","r","e",
       "s","p","o","n","s","e"," ","f","r","o","m"," ","G","e","m","i","n","i"," ","A","P","I",
       ":"," ">>

MSG_UNEXPECTED_INFERENCE == <<"A","n"," ","u","n","e","x","p","e","c","t","e","d"," ","e","r","r","o","r"," ","o","c",
       "c","u","r","r","e","d"," ","d","u","r","i","n","g"," ","G","e","m","i","n","i"," ","A",
       "P","I"," ","i","n","f","e","r","e","n","c","e",":"," ">>

MSG_API_ERROR == <<"G","e","m","i","n","i"," ","A","P","I"," ","E","r","r","o","r",":"," ">>

MSG_UNKNOWN_API_ERROR == <<"U","n","k","n","o","w","n"," ","A","P","I"," ","e","r","r","o","r">>

MSG_UNEXPECTED_STRUCTURE == <<"U","n","e","x","p","e","c","t","e","d"," ","G","e","m","i","n","i"," ","A","P","I"," ",
       "r","e","s","p","o","n","s","e"," ","s","t","r","u","c","t","u","r","e",":"," ">>

\* str(HTTPError): "<status> Client Error: <reason> for url: <url>" for 4xx,
\* "Server Error" for 5xx.
HttpErrorText(status, reason, url) ==
  IntToStr(status)
    \o (IF status < 500 THEN <<" ","C","l","i","e","n","t"," ","E","r","r","o","r",":"," ">> ELSE <<" ","S","e","r","v","e","r"," ","E","r","r","o","r",":"," ">>)
    \o reason \o <<" ","f","o","r"," ","u","r","l",":"," ">> \o url

\* The condition of the if is a chain of .get and [0], cut short by the first falsy
\* link: the text found (truthy), PyNone when a link is falsy, or the exception
\* raised.  One operator per link, the last link first.
FromText(text) ==
  IF IsExc(text) THEN text ELSE IF ~Truthy(text) THEN PyNone ELSE text

FromPart(part) ==
  IF IsExc(part) THEN part ELSE FromText(DictGet(part, K_text, PyNone))

FromParts(parts) ==
  IF IsExc(parts) THEN parts
  ELSE IF ~Truthy(parts) THEN PyNone
  ELSE FromPart(Index0(parts))

FromContent(content) ==
  IF IsExc(content) THEN content
  ELSE IF ~Truthy(content) THEN PyNone
  ELSE FromParts(DictGet(content, K_parts, PyNone))

FromFirst(first) ==
  IF IsExc(first) THEN first ELSE FromContent(DictGet(first, K_content, PyNone))

FromCandidates(candidates) ==
  IF IsExc(candidates) THEN candidates
  ELSE IF ~Truthy(candidates) THEN PyNone
  ELSE FromFirst(Index0(candidates))

CandidateText(result) == FromCandidates(DictGet(result, K_candidates, PyNone))

\* f"Gemini API Error: {result['error'].get('message', 'Unknown API error')}"
ApiError(message) ==
  IF IsExc(message) THEN message ELSE PyStr(MSG_API_ERROR \o Format(message))

\* elif result.get('error') / else
ErrorReply(result, error) ==
  IF Truthy(error) THEN ApiError(DictGet(error, K_message, PyStr(MSG_UNKNOWN_API_ERROR)))
  ELSE PyStr(MSG_UNEXPECTED_STRUCTURE \o Format(result))

ReplyOrError(result, text) ==
  IF IsExc(text) THEN text
  ELSE IF Truthy(text) THEN text
  ELSE ErrorReply(result, DictGet(result, K_error, PyNone))

\* The if / elif / else on the decoded body.
ExtractReply(result) == ReplyOrError(result, CandidateText(result))

\* except Exception as e
Caught(r) == IF IsExc(r) THEN PyStr(MSG_UNEXPECTED_INFERENCE \o r.msg) ELSE r

analyze_image_with_gemini_api(api_url, image_bytes, goal, out) ==
  CASE out.kind = "network" -> PyStr(MSG_NETWORK \o out.msg)
    [] out.kind = "http" ->
         PyStr(MSG_NETWORK \o HttpErrorText(out.status, out.reason, api_url))
    [] out.kind = "body" ->
         IF out.as = "RequestException" THEN PyStr(MSG_NETWORK \o <<"E","x","p","e","c","t","i","n","g"," ","v","a","l","u","e">>)
         ELSE PyStr(MSG_DECODING \o <<"E","x","p","e","c","t","i","n","g"," ","v","a","l","u","e">>)
    [] out.kind = "json" -> Caught(ExtractReply(out.result))

-----------------------------------------------------------------------------
(* 5. The renderer: the formatting part of get_nutritional_info.  A section *)
(* is [text |-> <<characters>>], or the exception its loop raises.          *)

Text(s) == [text |-> s]

NL == <<"\n">>

RECURSIVE Concat(_)
Concat(parts) == IF parts = <<>> THEN <<>> ELSE parts[1] \o Concat(Tail(parts))

HEADER == <<"#","#","#"," ","N","u","t","r","i","t","i","o","n","a","l"," ","A","n","a","l","y","s",
       "i","s","\n","\n">>

H_FOODS == <<"*","*","I","d","e","n","t","i","f","i","e","d"," ","F","o","o","d","s",":","*","*",
       "\n">>

H_MACROS == <<"\n","*","*","M","a","c","r","o","n","u","t","r","i","e","n","t","s",":","*","*","\n">>

H_MICROS == <<"\n","*","*","M","i","c","r","o","n","u","t","r","i","e","n","t","s",":","*","*","\n">>

H_ADDITIONAL == <<"\n","*","*","A","d","d","i","t","i","o","n","a","l"," ","I","n","f","o","r","m","a",
       "t","i","o","n",":","*","*","\n">>

H_IMPROVEMENTS == <<"\n","*","*","S","u","g","g","e","s","t","e","d"," ","I","m","p","r","o","v","e","m",
       "e","n","t","s",":","*","*","\n">>

NO_FOODS == <<"N","o"," ","s","p","e","c","i","f","i","c"," ","f","o","o","d"," ","i","t","e","m","s",
       " ","i","d","e","n","t","i","f","i","e","d",".","\n">>

NO_MACROS == <<"N","o"," ","m","a","c","r","o","n","u","t","r","i","e","n","t"," ","d","a","t","a"," ",
       "a","v","a","i","l","a","b","l","e",".","\n">>

NO_MICROS == <<"N","o"," ","m","i","c","r","o","n","u","t","r","i","e","n","t"," ","d","a","t","a"," ",
       "a","v","a","i","l","a","b","l","e",".","\n">>

NO_SUGGESTIONS == <<"N","o"," ","s","p","e","c","i","f","i","c"," ","s","u","g","g","e","s","t","i","o","n",
       "s"," ","p","r","o","v","i","d","e","d",".","\n">>

\* f"- {x}\n"
Bullet(x) == <<"-"," ">> \o Format(x) \o NL

\* for x in ...: output_text += f"- {x}\n", after head and before tail.
Bullets(head, each, tail) ==
  IF IsExc(each) THEN each
  ELSE Text(head \o Concat([i \in 1..Len(each.items) |-> Bullet(each.items[i])]) \o tail)

FoodsSection(report) ==
  IF Truthy(report.food_items) THEN Bullets(H_FOODS, Iterate(report.food_items), <<>>)
  ELSE Text(H_FOODS \o NO_FOODS)

MacroSuffix(macro) ==
  IF macro = <<"c","a","l","o","r","i","e","s">> THEN <<" ","k","c","a","l">>
  ELSE IF macro \in {<<"s","o","d","i","u","m">>, <<"c","h","o","l","e","s","t","e","r","o","l">>} THEN <<" ","m","g">>
  ELSE <<"g">>

MicroSuffix(micro) ==
  IF micro = <<"v","i","t","a","m","i","n","_","a">> THEN <<" ","I","U">>
  ELSE IF micro = <<"f","i","b","e","r">> THEN <<"g">>
  ELSE <<" ","m","g">>

MacroLine(macro, value) ==
  <<"-"," ">> \o DisplayName(macro) \o <<":"," ">> \o Format(value) \o MacroSuffix(macro) \o NL

MicroLine(micro, value) ==
  <<"-"," ">> \o DisplayName(micro) \o <<":"," ">> \o Format(value) \o MicroSuffix(micro) \o NL

MacrosSection(report) ==
  LET macros == report.macronutrients
  IN IF Truthy(macros)
     THEN IF macros.t # "dict" THEN NoAttribute(macros, <<"i","t","e","m","s">>)
          ELSE Text(H_MACROS \o Concat([i \in 1..Len(macros.keys) |->
                                          MacroLine(macros.keys[i], macros.vals[i])]))
     ELSE Text(H_MACROS \o NO_MACROS)

MicrosSection(report) ==
  LET micros == report.micronutrients
  IN IF Truthy(micros)
     THEN IF micros.t # "dict" THEN NoAttribute(micros, <<"i","t","e","m","s">>)
          ELSE Text(H_MICROS \o Concat([i \in 1..Len(micros.keys) |->
                                          MicroLine(micros.keys[i], micros.vals[i])]))
     ELSE Text(H_MICROS \o NO_MICROS)

InfoLine(key, value) == <<"-"," ">> \o DisplayName(key) \o <<":"," ">> \o Format(value) \o NL

\* A slip: the header written whether or not there is additional info.
AdditionalSection_AlwaysTitled(report) ==
  LET info == report.additional_info
  IN IF info.t # "dict"
     THEN (IF Truthy(info) THEN NoAttribute(info, <<"i","t","e","m","s">>) ELSE Text(H_ADDITIONAL))
     ELSE Text(H_ADDITIONAL \o Concat([i \in 1..Len(info.keys) |->
                                         InfoLine(info.keys[i], info.vals[i])]))

AdditionalSection(report) ==
  LET info == report.additional_info
  IN IF Truthy(info)
     THEN IF info.t # "dict" THEN NoAttribute(info, <<"i","t","e","m","s">>)
          ELSE Text(H_ADDITIONAL \o Concat([i \in 1..Len(info.keys) |->
                                              InfoLine(info.keys[i], info.vals[i])]))
     ELSE Text(<<>>)

GoalLine(goal) == <<"B","a","s","e","d"," ","o","n"," ","y","o","u","r"," ","g","o","a","l",":"," ">> \o goal \o NL

Placeholder(goal) == Text(H_IMPROVEMENTS \o GoalLine(goal) \o NO_SUGGESTIONS)

\* if improvements.get('context'): f"\nContext: {...}\n"
ContextTail(context) ==
  IF Truthy(context) THEN <<"\n","C","o","n","t","e","x","t",":"," ">> \o Format(context) \o NL ELSE <<>>

WithSuggestions(improvements, suggestions, goal) ==
  IF IsExc(suggestions) THEN suggestions
  ELSE IF ~Truthy(suggestions) THEN Placeholder(goal)
  ELSE Bullets(H_IMPROVEMENTS \o GoalLine(goal), Iterate(suggestions),
               ContextTail(DictGet(improvements, K_context, PyNone)))

\* if improvements and improvements.get('suggestions'): bullets, then the context
\* when truthy; else the placeholder.
ImprovementsSection(report, goal) ==
  IF ~Truthy(report.improvements) THEN Placeholder(goal)
  ELSE WithSuggestions(report.improvements,
                       DictGet(report.improvements, K_suggestions, PyNone), goal)

\* The sections in the order the code appends them; the first exception ends it.
Sections(report, goal) ==
  <<Text(HEADER), FoodsSection(report), MacrosSection(report), MicrosSection(report),
    AdditionalSection(report), ImprovementsSection(report, goal)>>

\* output_text, or the exception that escapes.
Joined(secs) ==
  IF \E i \in 1..Len(secs) : IsExc(secs[i])
  THEN secs[CHOOSE i \in 1..Len(secs) : IsExc(secs[i]) /\ \A j \in 1..(i - 1) : ~IsExc(secs[j])]
  ELSE PyStr(Concat([i \in 1..Len(secs) |-> secs[i].text]))

Render(report, goal) == Joined(Sections(report, goal))

-----------------------------------------------------------------------------
(* 6. get_nutritional_info: what it returns or raises, the steps it ran, the *)
(* text the inference call gave it and the report it parsed.                *)

MSG_NO_KEY ==
  <<"E","r","r","o","r",":"," ","G","e","m","i","n","i"," ","A","P","I"," ","K","e","y"," ",
       "i","s"," ","n","o","t"," ","c","o","n","f","i","g","u","r","e","d","."," ","P","l","e",
       "a","s","e"," ","s","e","t"," ","i","t"," ","a","s"," ","a"," ","H","u","g","g","i","n",
       "g"," ","F","a","c","e"," ","S","p","a","c","e"," ","S","e","c","r","e","t",".">>

MSG_IMAGE_FAILED == <<"F","a","i","l","e","d"," ","t","o"," ","p","r","o","c","e","s","s"," ","i","m","a","g",
       "e","."," ","P","l","e","a","s","e"," ","t","r","y"," ","a","n","o","t","h","e","r"," ",
       "i","m","a","g","e",".">>

ERROR_MARK == <<"E","r","r","o","r",":">>

Unset == [t |-> "unset"]

NoOutcome == [kind |-> "none"]

\* not raw_response_text or "Error:" in raw_response_text: PyBool, or the TypeError
\* of "in" on a value that is no container.
IsErrorText(raw) == IF ~Truthy(raw) THEN PyBool(TRUE) ELSE InValue(ERROR_MARK, raw)

\* One run: what is returned (or raised), the steps made, the text and the report.
Ran(ret_, calls_, raw_, parsed_) ==
  [ret |-> ret_, calls |-> calls_, raw |-> raw_, parsed |-> parsed_]

\* Lines 228-285: the report parsed is formatted.
Rendered(raw, parsed, goal) ==
  Ran(Render(parsed, goal), <<"process_image", "post", "parse", "render">>, raw, parsed)

\* Lines 225-285: from the text the inference call returned.
AfterCall(raw, propagate, goal) ==
  IF IsExc(propagate) THEN Ran(propagate, <<"process_image", "post">>, raw, Unset)
  ELSE IF propagate.b THEN Ran(raw, <<"process_image", "post">>, raw, Unset)
  ELSE Rendered(raw, parse_nutrition_response(raw), goal)

\* Line 225: the test that decides whether the text is propagated.
WithReply(raw, goal) == AfterCall(raw, IsErrorText(raw), goal)

\* A slip: the result of the image preparation is not tested.
AfterImage_Unchecked(key, processed_image_bytes, goal, out) ==
  WithReply(analyze_image_with_gemini_api(GEMINI_API_URL(key), processed_image_bytes,
                                          goal, out), goal)

\* Lines 223-285: from the prepared image.
AfterImage(key, processed_image_bytes, goal, out) ==
  IF processed_image_bytes = PyNone
  THEN Ran(PyStr(MSG_IMAGE_FAILED), <<"process_image">>, Unset, Unset)
  ELSE WithReply(analyze_image_with_gemini_api(GEMINI_API_URL(key), processed_image_bytes,
                                               goal, out), goal)

\* if GEMINI_API_KEY is None: the configuration error; else the image is prepared.
get_nutritional_info(key, img, goal, out) ==
  IF key = PyNone THEN Ran(PyStr(MSG_NO_KEY), <<>>, Unset, Unset)
  ELSE AfterImage(key, process_image_for_analysis(img), goal, out)

-----------------------------------------------------------------------------
(* 7. The inputs of the model: goals, replies of the inference service.     *)

Goals == {<<"M","a","i","n","t","a","i","n"," ","w","e","i","g","h","t">>, <<"F","a","t"," ","l","o","s","s">>}

Absent == [t |-> "absent"]

\* json.dumps: the JSON text of a value (no escapes are needed for the model's strings).
RECURSIVE Dumps(_)
Dumps(v) ==
  CASE v.t = "None" -> <<"n","u","l","l">>
    [] v.t = "bool" -> IF v.b THEN <<"t","r","u","e">> ELSE <<"f","a","l","s","e">>
    [] v.t = "int" -> IntToStr(v.n)
    [] v.t = "str" -> <<"\"">> \o v.s \o <<"\"">>
    [] v.t = "list" ->
         <<"[">> \o JoinSeq([i \in 1..Len(v.items) |-> Dumps(v.items[i])], <<","," ">>) \o <<"]">>
    [] v.t = "dict" ->
         <<"{">> \o JoinSeq([i \in 1..Len(v.keys) |->
                               <<"\"">> \o v.keys[i] \o <<"\"",":"," ">> \o Dumps(v.vals[i])], <<","," ">>)
                 \o <<"}">>

BaseFoods == PyList(<<PyStr(<<"r","i","c","e">>), PyStr(<<"e","g","g">>)>>)

BaseMacros ==
  PyDict(<<<<"c","a","l","o","r","i","e","s">>, <<"p","r","o","t","e","i","n">>, <<"s","a","t","u","r","a","t","e","d","_","f","a","t">>, <<"c","h","o","l","e","s","t","e","r","o","l">>, <<"s","o","d","i","u","m">>>>,
         <<PyInt(1), PyInt(0), PyInt(1), PyInt(0), PyInt(1)>>)

BaseMicros ==
  PyDict(<<<<"v","i","t","a","m","i","n","_","a">>, <<"f","i","b","e","r">>, <<"i","r","o","n">>, <<"v","i","t","a","m","i","n","_","b","1","2">>>>,
         <<PyInt(1), PyInt(0), PyInt(1), PyInt(0)>>)

BaseImprovements ==
  PyDict(<<K_suggestions, K_context>>,
         <<PyList(<<PyStr(<<"A","d","d"," ","g","r","e","e","n","s">>), PyStr(<<"M","o","r","e"," ","p","r","o","t","e","i","n">>)>>), PyStr(<<"B","e"," ","c","o","n","c","i","s","e",".">>)>>)

BaseInfo ==
  PyDict(<<<<"s","e","r","v","i","n","g","_","s","i","z","e">>, <<"a","l","l","e","r","g","e","n","s">>>>, <<PyStr(<<"1"," ","c","u","p">>), PyStr(<<"D","a","i","r","y">>)>>)

\* Values of the wrong JSON type for a section.
WrongTypes ==
  {PyNone, PyBool(TRUE), PyList(<<PyInt(1)>>), PyStr(<<"a","b">>)} \cup {PyInt(n) : n \in 0..MaxNum}

FoodsOptions ==
  {Absent, EmptyList, PyList(<<PyStr(<<"^","^">>)>>), PyList(<<PyStr(<<"a","^","^","^","j","s","o","n">>), PyInt(1)>>),
   PyDict(<<<<"t","e","a">>>>, <<PyInt(1)>>)} \cup WrongTypes

MacrosOptions ==
  {Absent, EmptyDict, EmptyList,
   PyDict(<<<<"f","i","b","e","r">>, <<"v","i","t","a","m","i","n","_","a">>, <<"C","a","l","o","r","i","e","s">>>>, <<PyInt(1), PyNone, PyStr(<<"l","o","w">>)>>)}
    \cup {PyDict(<<<<"s","o","d","i","u","m">>, <<"c","a","l","o","r","i","e","s">>>>, <<PyInt(n), PyInt(n)>>) : n \in 0..MaxNum}
    \cup WrongTypes

MicrosOptions ==
  {Absent, EmptyDict, EmptyList,
   PyDict(<<<<"c","a","l","o","r","i","e","s">>, <<"s","o","d","i","u","m">>, <<"v","i","t","a","m","i","n","_","a">>>>, <<PyInt(1), PyStr(<<"l","o","w">>), PyNone>>)}
    \cup {PyDict(<<<<"f","i","b","e","r">>, <<"v","i","t","a","m","i","n","_","a">>>>, <<PyInt(n), PyInt(n)>>) : n \in 0..MaxNum}
    \cup WrongTypes

InfoOptions ==
  {Absent, EmptyDict, PyDict(<<<<"n","o","t","e">>>>, <<PyStr(<<"E","r","r","o","r",":"," ","n","o","n","e">>)>>),
   PyDict(<<<<"t","o","t","a","l","_","w","e","i","g","h","t">>>>, <<PyList(<<PyInt(1)>>)>>)} \cup WrongTypes

ImprovementsOptions ==
  {Absent, EmptyDict,
   PyDict(<<K_context>>, <<PyStr(<<"B","e"," ","c","o","n","c","i","s","e",".">>)>>),
   PyDict(<<K_suggestions>>, <<PyList(<<PyStr(<<"A","d","d"," ","g","r","e","e","n","s">>)>>)>>),
   PyDict(<<K_suggestions, K_context>>, <<EmptyList, PyStr(<<"B","e"," ","c","o","n","c","i","s","e",".">>)>>),
   PyDict(<<K_suggestions, K_context>>, <<PyList(<<PyStr(<<"A","d","d"," ","g","r","e","e","n","s">>)>>), PyStr(<<>>)>>),
   PyDict(<<K_suggestions, K_context>>, <<PyList(<<PyStr(<<"F","i","x"," ","E","r","r","o","r",":"," ","s","a","l","t">>)>>), PyStr(<<>>)>>),
   PyDict(<<K_suggestions, K_context>>, <<PyStr(<<"a","b">>), PyInt(1)>>),
   PyDict(<<K_suggestions, K_context>>, <<PyInt(1), PyStr(<<>>)>>)} \cup WrongTypes

\* The JSON object with the sections that are not Absent, in the prompt's order.
MakeDoc(foods, macros, micros, improvements, info) ==
  LET all == <<K_identified_foods, K_macronutrients, K_micronutrients, K_improvements,
               K_additional_info>>
      given == <<foods, macros, micros, improvements, info>>
      present == {i \in 1..5 : given[i] # Absent}
      RECURSIVE Pick(_)
      Pick(i) == IF i > 5 THEN <<>>
                 ELSE IF i \in present THEN <<i>> \o Pick(i + 1) ELSE Pick(i + 1)
      idx == Pick(1)
  IN PyDict([j \in 1..Len(idx) |-> all[idx[j]]], [j \in 1..Len(idx) |-> given[idx[j]]])

\* The reply documents: the schema-conformant document, with one section at a
\* time replaced by each of its options; the document with every section absent, one
\* with every section empty, and JSON values that are no object.
Docs ==
  {MakeDoc(f, BaseMacros, BaseMicros, BaseImprovements, BaseInfo) : f \in FoodsOptions \cup {BaseFoods}}
    \cup {MakeDoc(BaseFoods, m, BaseMicros, BaseImprovements, BaseInfo) : m \in MacrosOptions}
    \cup {MakeDoc(BaseFoods, BaseMacros, m, BaseImprovements, BaseInfo) : m \in MicrosOptions}
    \cup {MakeDoc(BaseFoods, BaseMacros, BaseMicros, i, BaseInfo) : i \in ImprovementsOptions}
    \cup {MakeDoc(BaseFoods, BaseMacros, BaseMicros, BaseImprovements, a) : a \in InfoOptions}
    \cup {MakeDoc(Absent, Absent, Absent, Absent, Absent),
          MakeDoc(EmptyList, EmptyDict, EmptyDict, EmptyDict, EmptyDict),
          MakeDoc(EmptyList, EmptyDict, EmptyDict, DefaultImprovements, EmptyDict)}
    \cup {PyNone, PyBool(FALSE), EmptyList, PyList(<<BaseMacros>>), PyStr(<<"r","i","c","e">>)}
    \cup {PyInt(n) : n \in 0..MaxNum}

\* The text as the model may wrap it, cut short by its last k characters (a reply
\* that ends at the token limit).
Wrap(w, text, k) ==
  LET wrapped ==
        CASE w = "plain" -> text
          [] w = "fenced" -> FENCE_JSON \o text \o FENCE
          [] w = "fenced lines" -> FENCE_JSON \o NL \o text \o NL \o FENCE \o NL
          [] w = "padded" -> <<" ","\n">> \o text \o <<"\n"," ">>
  IN SubSeq(wrapped, 1, Len(wrapped) - k)

\* Replies that are not JSON at all.
Prose == {<<"I"," ","c","a","n","n","o","t"," ","i","d","e","n","t","i","f","y"," ","a","n","y"," ",
       "f","o","o","d",".">>, <<"E","r","r","o","r",":"," ","u","n","s","a","f","e"," ","i","m","a","g","e">>, <<"{","\"","i","d","e","n","t","i","f","i","e","d","_","f","o","o","d","s","\"",":"," ",
       "[">>}

\* The documents that are also sent wrapped and cut short.
VariedDocs ==
  {MakeDoc(BaseFoods, BaseMacros, BaseMicros, BaseImprovements, BaseInfo),
   MakeDoc(PyList(<<PyStr(<<"^","^">>)>>), Absent, Absent, Absent, Absent),
   MakeDoc(Absent, Absent, Absent, Absent, Absent),
   PyList(<<BaseMacros>>)}
    \cup {PyInt(n) : n \in 0..MaxNum}

ReplyTexts ==
  {Dumps(d) : d \in Docs}
    \cup {Wrap(w, Dumps(d), k) :
            d \in VariedDocs, w \in {"plain", "fenced", "fenced lines", "padded"}, k \in 0..MaxTrunc}
    \cup Prose

\* {"candidates": [{"content": {"parts": [{"text": text}]}}]}
Candidate(text) ==
  PyDict(<<K_candidates>>,
         <<PyList(<<PyDict(<<K_content>>,
                           <<PyDict(<<K_parts>>,
                                    <<PyList(<<PyDict(<<K_text>>, <<text>>)>>)>>)>>)>>)>>)

\* Decoded bodies of other shapes.
OddResults ==
  {EmptyDict, EmptyList, PyNone,
   PyDict(<<K_candidates>>, <<EmptyList>>),
   PyDict(<<K_candidates>>, <<PyList(<<PyInt(1)>>)>>),
   PyDict(<<K_candidates>>, <<PyDict(<<<<"a">>>>, <<PyInt(1)>>)>>),
   PyDict(<<K_candidates>>, <<PyInt(1)>>),
   PyDict(<<K_candidates>>, <<PyList(<<PyDict(<<<<"f","i","n","i","s","h","R","e","a","s","o","n">>>>, <<PyStr(<<"S","A","F","E","T","Y">>)>>)>>)>>),
   PyDict(<<K_candidates>>, <<PyList(<<PyDict(<<K_content>>, <<PyStr(<<"a","b">>)>>)>>)>>),
   PyDict(<<K_candidates>>,
          <<PyList(<<PyDict(<<K_content>>, <<PyDict(<<K_parts>>, <<EmptyList>>)>>)>>)>>),
   PyDict(<<<<"s","t","a","t","u","s">>>>, <<PyStr(<<"E","r","r","o","r",":"," ","o","v","e","r","l","o","a","d","e","d">>)>>),
   PyDict(<<K_error>>, <<PyDict(<<K_message>>, <<PyStr(<<"A","P","I"," ","k","e","y"," ","n","o","t"," ","v","a","l","i","d",".">>)>>)>>),
   PyDict(<<K_error>>, <<PyDict(<<<<"c","o","d","e">>>>, <<PyInt(1)>>)>>),
   PyDict(<<K_error>>, <<PyStr(<<"d","e","n","i","e","d">>)>>),
   PyDict(<<K_error>>, <<EmptyDict>>),
   Candidate(PyStr(<<>>)), Candidate(PyList(<<PyStr(ERROR_MARK)>>)), Candidate(PyList(<<PyStr(<<"r","i","c","e">>)>>)),
   Candidate(PyDict(<<ERROR_MARK>>, <<PyInt(1)>>))}
    \cup {Candidate(PyInt(n)) : n \in 0..MaxNum}

Outcomes ==
  {[kind |-> "network", msg |-> m] : m \in {<<"R","e","a","d"," ","t","i","m","e","d"," ","o","u","t",".">>, <<"C","o","n","n","e","c","t","i","o","n"," ","a","b","o","r","t","e","d",".">>}}
    \cup {[kind |-> "http", status |-> 400, reason |-> <<"B","a","d"," ","R","e","q","u","e","s","t">>],
          [kind |-> "http", status |-> 503, reason |-> <<"S","e","r","v","i","c","e"," ","U","n","a","v","a","i","l","a","b","l","e">>]}
    \cup {[kind |-> "body", as |-> a] : a \in {"RequestException", "JSONDecodeError"}}
    \cup {[kind |-> "json", result |-> r] : r \in OddResults}
    \cup {[kind |-> "json", result |-> Candidate(PyStr(t))] : t \in ReplyTexts}

\* What parse_nutrition_response is called with when called on its own.
ParseInputs == {PyStr(t) : t \in ReplyTexts} \cup {PyNone, PyList(<<PyStr(<<"r","i","c","e">>)>>)}

-----------------------------------------------------------------------------
(* 8. The state machine. *)

Init ==
  /\ GEMINI_API_KEY \in EnvValues
  /\ pc = "idle"
  /\ image = "None"
  /\ user_goal = <<>>
  /\ outcome = NoOutcome
  /\ calls = <<>>
  /\ raw_response_text = Unset
  /\ parsed_result = Unset
  /\ ret = Unset

\* The outcome of the inference call is recorded when the call was made.
Returns(img, goal, out, r) ==
  /\ image' = img
  /\ user_goal' = goal
  /\ outcome' = (IF \E i \in 1..Len(r.calls) : r.calls[i] = "post" THEN out ELSE NoOutcome)
  /\ calls' = r.calls
  /\ raw_response_text' = r.raw
  /\ parsed_result' = r.parsed
  /\ ret' = r.ret

\* One request: get_nutritional_info(image, user_goal); out is what the inference
\* service would answer.
Invoke ==
  /\ pc = "idle"
  /\ \E img \in Images, goal \in Goals, out \in Outcomes :
       Returns(img, goal, out, get_nutritional_info(GEMINI_API_KEY, img, goal, out))
  /\ pc' = "returned"
  /\ UNCHANGED GEMINI_API_KEY

\* parse_nutrition_response(response_text) called on its own.
Parse ==
  /\ pc = "idle"
  /\ \E text \in ParseInputs :
       /\ raw_response_text' = text
       /\ parsed_result' = parse_nutrition_response(text)
  /\ calls' = <<"parse">>
  /\ pc' = "parsed"
  /\ UNCHANGED <<GEMINI_API_KEY, image, user_goal, outcome, ret>>

\* Nothing is kept between calls.
Finish ==
  /\ pc # "idle"
  /\ pc' = "idle"
  /\ image' = "None"
  /\ user_goal' = <<>>
  /\ outcome' = NoOutcome
  /\ calls' = <<>>
  /\ raw_response_text' = Unset
  /\ parsed_result' = Unset
  /\ ret' = Unset
  /\ UNCHANGED GEMINI_API_KEY

Next == Invoke \/ Parse \/ Finish

Spec == Init /\ [][Next]_vars

-----------------------------------------------------------------------------
(* 9. Vocabulary of the properties. *)

Did(step) == \E i \in 1..Len(calls) : calls[i] = step

Position(step) == CHOOSE i \in 1..Len(calls) : calls[i] = step

IsString(v) == ~IsExc(v) /\ v.t = "str"

IsMapping(v) == v.t = "dict"

IsSequence(v) == v.t = "list"

Returned == pc = "returned"

\* parse_nutrition_response has run on raw_response_text, in a request or on its own.
ParseRan == pc \in {"returned", "parsed"} /\ Did("parse")

\* A request that went through parsing and rendering.
RenderRan == Returned /\ Did("render")

\* The text decodes, after cleaning, to a JSON object.
DecodesToObject(text) ==
  /\ text.t = "str"
  /\ ~IsExc(json_loads(CleanResponse(text.s)))
  /\ json_loads(CleanResponse(text.s)).t = "dict"

\* The try block of parse_nutrition_response raises on the text.
ParseFails(text) == IsExc(ParseAttempt(text))

\* The lines of a text.
RECURSIVE LinesFrom(_, _)

LinesAt(s, i, j) ==
  IF j = 0 THEN <<SubSeq(s, i, Len(s))>> ELSE <<SubSeq(s, i, j - 1)>> \o LinesFrom(s, j + 1)

LinesFrom(s, i) == IF i > Len(s) THEN <<>> ELSE LinesAt(s, i, NextMatch(s, i, NL))

Lines(s) == LinesFrom(s, 1)

\* The title line of a section header.
TitleLine(header) == Strip(header)

Places(lines, line) == {i \in 1..Len(lines) : lines[i] = line}

Place(lines, line) == CHOOSE i \in Places(lines, line) : TRUE

\* The last line before the first empty line at or after from (or the last line).
BodyEnd(lines, from) ==
  IF \A i \in from..Len(lines) : lines[i] # <<>> THEN Len(lines)
  ELSE (CHOOSE i \in from..Len(lines) :
          lines[i] = <<>> /\ \A k \in from..(i - 1) : lines[k] # <<>>) - 1

\* The lines after the section's title line, up to the next empty line or the end.
Body(lines, title) ==
  SubSeq(lines, Place(lines, title) + 1, BodyEnd(lines, Place(lines, title) + 1))

\* The lines after the section's title line, to the end of the document.
Rest(lines, title) == SubSeq(lines, Place(lines, title) + 1, Len(lines))

\* Snake-case to title-case: each word's first letter in upper case, the words
\* separated by one space.
TitleCase(name) ==
  [i \in 1..Len(name) |->
     IF name[i] = "_" THEN " "
     ELSE IF i = 1 \/ name[i - 1] = "_" THEN ToUpper(name[i])
     ELSE name[i]]

\* The unit of a macronutrient, with the separator written before it.
MacroUnitOf(name) ==
  IF name = <<"c","a","l","o","r","i","e","s">> THEN <<" ","k","c","a","l">>
  ELSE IF name = <<"s","o","d","i","u","m">> \/ name = <<"c","h","o","l","e","s","t","e","r","o","l">> THEN <<" ","m","g">>
  ELSE <<"g">>

MicroUnitOf(name) ==
  IF name = <<"v","i","t","a","m","i","n","_","a">> THEN <<" ","I","U">>
  ELSE IF name = <<"f","i","b","e","r">> THEN <<"g">>
  ELSE <<" ","m","g">>

ExpectedMacroLines(d) ==
  [i \in 1..Len(d.keys) |->
     <<"-"," ">> \o TitleCase(d.keys[i]) \o <<":"," ">> \o Format(d.vals[i]) \o MacroUnitOf(d.keys[i])]

ExpectedMicroLines(d) ==
  [i \in 1..Len(d.keys) |->
     <<"-"," ">> \o TitleCase(d.keys[i]) \o <<":"," ">> \o Format(d.vals[i]) \o MicroUnitOf(d.keys[i])]

\* The body of a nutrient section: the expected lines, or the placeholder of an
\* empty mapping.
NutrientBody(expected, placeholder) ==
  IF expected = <<>> THEN <<Strip(placeholder)>> ELSE expected

UnitLinesOf(doc, report) ==
  /\ Body(Lines(doc), TitleLine(H_MACROS)) =
       NutrientBody(ExpectedMacroLines(report.macronutrients), NO_MACROS)
  /\ Body(Lines(doc), TitleLine(H_MICROS)) =
       NutrientBody(ExpectedMicroLines(report.micronutrients), NO_MICROS)

AllStrings(items) == \A i \in 1..Len(items) : items[i].t = "str"

\* The shape of the data model: a sequence, three mappings, and improvements with a
\* suggestions sequence and a context string.
Shaped(report) ==
  /\ IsSequence(report.food_items)
  /\ IsMapping(report.macronutrients)
  /\ IsMapping(report.micronutrients)
  /\ IsMapping(report.additional_info)
  /\ IsMapping(report.improvements)
  /\ HasKey(report.improvements, K_suggestions)
  /\ HasKey(report.improvements, K_context)
  /\ IsSequence(DictGet(report.improvements, K_suggestions, PyNone))
  /\ DictGet(report.improvements, K_context, PyNone).t = "str"

SuggestionsOf(report) == DictGet(report.improvements, K_suggestions, PyNone).items

ContextOf(report) == DictGet(report.improvements, K_context, PyNone).s

\* A report of the data model: shaped, its foods and suggestions strings.
FullyShaped(report) ==
  /\ Shaped(report)
  /\ AllStrings(report.food_items.items)
  /\ AllStrings(SuggestionsOf(report))

BulletLines(items) == [i \in 1..Len(items) |-> <<"-"," ">> \o items[i].s]

\* The title lines are met once each, in this order.
InOrder(lines, titles) ==
  /\ \A i \in 1..Len(titles) : Cardinality(Places(lines, titles[i])) = 1
  /\ \A i \in 1..(Len(titles) - 1) : Place(lines, titles[i]) < Place(lines, titles[i + 1])

FoodsBodyOf(lines, report) ==
  Body(lines, TitleLine(H_FOODS)) =
    IF report.food_items.items = <<>> THEN <<Strip(NO_FOODS)>>
    ELSE BulletLines(report.food_items.items)

GoalLineOf(goal) == <<"B","a","s","e","d"," ","o","n"," ","y","o","u","r"," ","g","o","a","l",":"," ">> \o goal

ContextLinesOf(report) ==
  IF ContextOf(report) = <<>> THEN <<>> ELSE <<<<>>, <<"C","o","n","t","e","x","t",":"," ">> \o ContextOf(report)>>

FourTitles ==
  <<TitleLine(H_FOODS), TitleLine(H_MACROS), TitleLine(H_MICROS), TitleLine(H_IMPROVEMENTS)>>

FiveTitles ==
  <<TitleLine(H_FOODS), TitleLine(H_MACROS), TitleLine(H_MICROS), TitleLine(H_ADDITIONAL),
    TitleLine(H_IMPROVEMENTS)>>

StartsWith(s, prefix) == MatchAt(s, 1, prefix)

-----------------------------------------------------------------------------
\* C1: whatever the image, the goal and the outcome of the inference call,
\* get_nutritional_info ends by returning a string: no exception escapes it.
C1_AlwaysReturnsString == Returned => IsString(ret)

-----------------------------------------------------------------------------
\* The key is not set: the environment variable is absent or empty (the test of
\* the start-up check, "if not GEMINI_API_KEY").
KeyNotSet == ~Truthy(GEMINI_API_KEY)

\* C2: with no API key set (variable absent or empty), get_nutritional_info returns
\* the configuration error and runs neither the image preparation nor the HTTP call.
C2_NoKeyShortCircuits ==
  (Returned /\ KeyNotSet) =>
    /\ ret = PyStr(MSG_NO_KEY)
    /\ ~Did("process_image")
    /\ ~Did("post")

-----------------------------------------------------------------------------
\* The inference call ended in a transport or API error: the request failed, the
\* status was not 2xx, the body did not decode, or the decoded body holds no
\* candidate text (an error object or another shape).
TransportOrApiError(out) ==
  \/ out.kind \in {"network", "http", "body"}
  \/ /\ out.kind = "json"
     /\ IsExc(CandidateText(out.result)) \/ CandidateText(out.result) = PyNone

\* C3: every transport/API error of the inference call ends the request early:
\* the error string is returned as it is, and is neither parsed nor rendered.
C3_TransportErrorsEndEarly ==
  (Returned /\ Did("post") /\ TransportOrApiError(outcome)) =>
    /\ ret = raw_response_text
    /\ ~Did("parse")
    /\ ~Did("render")

-----------------------------------------------------------------------------
EmptyFields(report) ==
  /\ report.food_items = EmptyList
  /\ report.macronutrients = EmptyDict
  /\ report.micronutrients = EmptyDict
  /\ report.additional_info = EmptyDict
  /\ IsMapping(report.improvements)
  /\ DictGet(report.improvements, K_context, PyNone) = PyStr(<<>>)

OneSuggestion(report, message) ==
  DictGet(report.improvements, K_suggestions, PyNone) = PyList(<<PyStr(message)>>)

\* C4 as stated: whenever parsing fails, by a JSON decode failure or by any other
\* exception, the report is empty but for one suggestion, the same advisory
\* message that asks the user to try again.
C4_SameRetryAdvice ==
  (ParseRan /\ ParseFails(raw_response_text)) =>
    /\ EmptyFields(parsed_result)
    /\ OneSuggestion(parsed_result, MSG_COULD_NOT_PARSE)

\* C4, amended: whenever parsing fails the report is empty but for one suggestion:
\* the advice to try again after a JSON decode failure, and the notice of an
\* unexpected error (which does not ask to try again) after any other exception.
C4_FallbackReport ==
  (ParseRan /\ ParseFails(raw_response_text)) =>
    /\ EmptyFields(parsed_result)
    /\ OneSuggestion(parsed_result,
                     IF ParseAttempt(raw_response_text).exc = "JSONDecodeError"
                     THEN MSG_COULD_NOT_PARSE ELSE MSG_UNEXPECTED_PARSING)

\* Parsing failed on valid JSON that is no object.
C4_Witness ==
  /\ pc = "parsed"
  /\ raw_response_text = PyStr(<<"[","]">>)
  /\ ParseFails(raw_response_text)
  /\ OneSuggestion(parsed_result, MSG_UNEXPECTED_PARSING)

-----------------------------------------------------------------------------
\* The section of the decoded object, or the empty container when it is absent.
SectionOf(data, key, default) == IF HasKey(data, key) THEN DictGet(data, key, default) ELSE default

GivenImprovements(data) == SectionOf(data, K_improvements, EmptyDict)

\* improvements as given, an absent suggestions or context replaced by the empty
\* list or the empty string.
ImprovementsAsGiven(report, given) ==
  /\ IsMapping(given)
  /\ DictGet(report.improvements, K_suggestions, PyNone) = SectionOf(given, K_suggestions, EmptyList)
  /\ DictGet(report.improvements, K_context, PyNone) = SectionOf(given, K_context, PyStr(<<>>))

SectionsAsGiven(report, data) ==
  /\ Shaped(report)
  /\ report.food_items = SectionOf(data, K_identified_foods, EmptyList)
  /\ report.macronutrients = SectionOf(data, K_macronutrients, EmptyDict)
  /\ report.micronutrients = SectionOf(data, K_micronutrients, EmptyDict)
  /\ report.additional_info = SectionOf(data, K_additional_info, EmptyDict)
  /\ ImprovementsAsGiven(report, GivenImprovements(data))

\* C5: for a text that decodes to a JSON object the report is fully shaped; an
\* absent section (or an absent suggestions or context) is replaced by the empty
\* container and a present section is returned as given.
C5_FullyShapedReport ==
  (ParseRan /\ DecodesToObject(raw_response_text)) =>
    SectionsAsGiven(parsed_result, json_loads(CleanResponse(raw_response_text.s)))

-----------------------------------------------------------------------------
ImagePreparationFails(img) == process_image_for_analysis(img) = PyNone

\* C6: when the image preparation fails, the failure message is returned and no
\* HTTP call is made; an HTTP call is made only with the key check passed and
\* after an image preparation that succeeded.
C6_NoCallWithoutImage ==
  Returned =>
    /\ (Did("process_image") /\ ImagePreparationFails(image)) =>
         (ret = PyStr(MSG_IMAGE_FAILED) /\ ~Did("post"))
    /\ Did("post") =>
         /\ GEMINI_API_KEY # PyNone
         /\ Did("process_image")
         /\ Position("process_image") < Position("post")
         /\ ~ImagePreparationFails(image)

\* A request with a key and an image that cannot be stored as JPEG.
C6_Witness ==
  /\ Returned
  /\ GEMINI_API_KEY # PyNone
  /\ image = "RGBA"
  /\ calls = <<"process_image">>
  /\ ret = PyStr(MSG_IMAGE_FAILED)

-----------------------------------------------------------------------------
BothMappings(report) == IsMapping(report.macronutrients) /\ IsMapping(report.micronutrients)

\* C7: for every report whose macronutrients and micronutrients are mappings, the
\* renderer writes one line per entry, in the mapping's order: the name in title
\* case, the value, and the unit the key alone decides.
C7_UnitLines ==
  (RenderRan /\ BothMappings(parsed_result)) =>
    /\ IsString(ret)
    /\ UnitLinesOf(ret.s, parsed_result)

\* The part of C7 that holds: the lines are as the unit table says in every
\* document the renderer completes.
UnitLinesWhenRendered ==
  (RenderRan /\ BothMappings(parsed_result) /\ IsString(ret)) =>
    UnitLinesOf(ret.s, parsed_result)

-----------------------------------------------------------------------------
\* A text that is a JSON document.
IsJsonDocument(text) == text.t = "str" /\ ~IsExc(json_loads(text.s))

Fenced(text) == PyStr(FENCE_JSON \o text.s \o FENCE)

\* C8: a JSON document wrapped in code-fence markers parses to the same report as
\* the document itself.
C8_FenceMakesNoDifference ==
  (pc = "parsed" /\ IsJsonDocument(raw_response_text)) =>
    parse_nutrition_response(Fenced(raw_response_text)) = parsed_result

\* A JSON document with backquotes inside a string, parsed to a report that holds
\* its foods.
C8_Witness ==
  /\ pc = "parsed"
  /\ IsJsonDocument(raw_response_text)
  /\ Contains(raw_response_text.s, <<"^", "^">>)
  /\ Truthy(parsed_result.food_items)

-----------------------------------------------------------------------------
\* C9 as stated: the document of a fully-shaped report holds all five sections in
\* the fixed order; foods are bulleted, or a placeholder when there are none;
\* improvements hold the bulleted suggestions and the context line when there is a
\* context, or a placeholder when there are no improvements.
C9_FiveSections ==
  (RenderRan /\ FullyShaped(parsed_result)) =>
    /\ IsString(ret)
    /\ InOrder(Lines(ret.s), FiveTitles)
    /\ FoodsBodyOf(Lines(ret.s), parsed_result)
    /\ Rest(Lines(ret.s), TitleLine(H_IMPROVEMENTS)) =
         <<GoalLineOf(user_goal)>> \o
           (IF SuggestionsOf(parsed_result) = <<>> /\ ContextOf(parsed_result) = <<>>
            THEN <<Strip(NO_SUGGESTIONS)>>
            ELSE BulletLines(SuggestionsOf(parsed_result)) \o ContextLinesOf(parsed_result))

\* C9, amended: the document of a fully-shaped report holds foods, macronutrients,
\* micronutrients and improvements in this order, and the additional-info section
\* between micronutrients and improvements exactly when additional_info is not
\* empty; foods are bulleted, or a placeholder when there are none; improvements
\* hold the bulleted suggestions, followed by the context line when the context
\* is not empty, or the placeholder alone when there are no suggestions.
C9_SectionsInOrder ==
  (RenderRan /\ FullyShaped(parsed_result)) =>
    /\ IsString(ret)
    /\ IF Truthy(parsed_result.additional_info)
       THEN InOrder(Lines(ret.s), FiveTitles)
       ELSE /\ InOrder(Lines(ret.s), FourTitles)
            /\ Places(Lines(ret.s), TitleLine(H_ADDITIONAL)) = {}
    /\ FoodsBodyOf(Lines(ret.s), parsed_result)
    /\ Rest(Lines(ret.s), TitleLine(H_IMPROVEMENTS)) =
         <<GoalLineOf(user_goal)>> \o
           (IF SuggestionsOf(parsed_result) = <<>>
            THEN <<Strip(NO_SUGGESTIONS)>>
            ELSE BulletLines(SuggestionsOf(parsed_result)) \o ContextLinesOf(parsed_result))

\* A fully-shaped report with foods, suggestions and a context but no additional
\* info, rendered.
C9_Witness ==
  /\ RenderRan
  /\ FullyShaped(parsed_result)
  /\ parsed_result.additional_info = EmptyDict
  /\ Truthy(parsed_result.food_items)
  /\ SuggestionsOf(parsed_result) # <<>>
  /\ ContextOf(parsed_result) # <<>>
  /\ IsString(ret)

-----------------------------------------------------------------------------
HoldsErrorMark(text) == text.s = <<>> \/ Contains(text.s, ERROR_MARK)

\* C10: a text from the inference call that is empty or holds "Error:" anywhere is
\* returned unchanged, neither parsed nor rendered; every other text is answered
\* with a rendered document.
C10_ErrorMarkDecides ==
  (Returned /\ Did("post") /\ IsString(raw_response_text)) =>
    IF HoldsErrorMark(raw_response_text)
    THEN ret = raw_response_text /\ ~Did("parse") /\ ~Did("render")
    ELSE Did("parse") /\ Did("render") /\ IsString(ret) /\ StartsWith(ret.s, HEADER)

\* The part of C10 that holds: the mark alone decides between returning the text
\* and parsing it.
ErrorMarkPropagates ==
  (Returned /\ Did("post") /\ IsString(raw_response_text)) =>
    IF HoldsErrorMark(raw_response_text)
    THEN ret = raw_response_text /\ ~Did("parse") /\ ~Did("render")
    ELSE Did("parse") /\ Did("render")

=============================================================================
